---- MODULE Spec2Model ----
(***************************************************************************)
(* A model of what-cms: the HubSpot detector in its two entry points, the  *)
(* command line program (src/main.py) and the Streamlit page (src/app.py). *)
(*                                                                         *)
(* Python strings are sequences of one-character strings, so that strip,   *)
(* lower, split, slicing, `in` and sorted() are computed on characters.    *)
(* An optional string (str | None) is a record [none, val].                *)
(***************************************************************************)
EXTENDS Integers, Sequences, FiniteSets, TLC

(***************************************************************************)
(* Bounds of the model.                                                    *)
(***************************************************************************)
MaxRows == 3
MaxEmailLen == 3
MaxFragments == 2

(***************************************************************************)
(* Python string primitives.                                               *)
(***************************************************************************)
UpperChars == <<"A","B","C","D","E","F","G","H","I","J","K","L","M",
                "N","O","P","Q","R","S","T","U","V","W","X","Y","Z">>

LowerChars == <<"a","b","c","d","e","f","g","h","i","j","k","l","m",
                "n","o","p","q","r","s","t","u","v","w","x","y","z">>

\* str.lower() on one character
LowerChar(c) ==
    IF \E i \in 1..Len(UpperChars) : UpperChars[i] = c
    THEN LowerChars[CHOOSE i \in 1..Len(UpperChars) : UpperChars[i] = c]
    ELSE c

\* str.lower()
Lower(s) == [i \in 1..Len(s) |-> LowerChar(s[i])]

\* ord(): the code point of a character, the key sorted() compares by
Ord(c) ==
    IF \E i \in 1..Len(UpperChars) : UpperChars[i] = c
    THEN 64 + (CHOOSE i \in 1..Len(UpperChars) : UpperChars[i] = c)
    ELSE IF \E i \in 1..Len(LowerChars) : LowerChars[i] = c
    THEN 96 + (CHOOSE i \in 1..Len(LowerChars) : LowerChars[i] = c)
    ELSE CASE c = "\t" -> 9
           [] c = "\n" -> 10
           [] c = " " -> 32
           [] c = "-" -> 45
           [] c = "." -> 46
           [] c = "/" -> 47
           [] c = ":" -> 58
           [] c = "<" -> 60
           [] c = ">" -> 62
           [] c = "@" -> 64

IsSpace(c) == c \in {" ", "\t", "\n"}

\* str.strip()
Strip(s) ==
    LET keep == {i \in 1..Len(s) : ~IsSpace(s[i])}
    IN  IF keep = {} THEN <<>>
        ELSE LET lo == CHOOSE i \in keep : \A j \in keep : i <= j
                 hi == CHOOSE i \in keep : \A j \in keep : j <= i
             IN  SubSeq(s, lo, hi)

\* needle in hay
Contains(hay, needle) ==
    \E i \in 0..(Len(hay) - Len(needle)) :
        SubSeq(hay, i + 1, i + Len(needle)) = needle

\* s.split('@')[-1]
SplitLast(s) ==
    LET at == {i \in 1..Len(s) : s[i] = "@"}
    IN  IF at = {} THEN s
        ELSE SubSeq(s, (CHOOSE i \in at : \A j \in at : j <= i) + 1, Len(s))

\* s[:n]
Prefix(s, n) == SubSeq(s, 1, IF Len(s) < n THEN Len(s) ELSE n)

\* a < b on Python strings (code point by code point, a proper prefix first)
RECURSIVE StrLess(_, _)
StrLess(a, b) ==
    IF a = <<>> THEN b /= <<>>
    ELSE IF b = <<>> THEN FALSE
    ELSE IF Ord(Head(a)) < Ord(Head(b)) THEN TRUE
    ELSE IF Ord(Head(a)) > Ord(Head(b)) THEN FALSE
    ELSE StrLess(Tail(a), Tail(b))

\* sorted(S) of a set of strings
RECURSIVE Sorted(_)
Sorted(S) ==
    IF S = {} THEN <<>>
    ELSE LET m == CHOOSE x \in S : \A y \in S \ {x} : StrLess(x, y)
         IN  <<m>> \o Sorted(S \ {m})

NoneStr == [none |-> TRUE, val |-> <<>>]

SomeStr(v) == [none |-> FALSE, val |-> v]

\* the truth value Python gives an optional string
Truthy(o) == ~o.none /\ o.val /= <<>>

\* s.split('@')[1]: the text between the first '@' and the next
SplitSecond(s) ==
    LET at == {i \in 1..Len(s) : s[i] = "@"}
        first == CHOOSE i \in at : \A j \in at : i <= j
        later == {i \in at : i > first}
    IN  IF later = {} THEN SubSeq(s, first + 1, Len(s))
        ELSE SubSeq(s, first + 1, (CHOOSE i \in later : \A j \in later : i <= j) - 1)

\* extract_domain_from_email taking the part after the first '@'
extract_domain_first_at(email) ==
    LET e == Strip(email)
    IN  IF \E i \in 1..Len(e) : e[i] = "@"
        THEN SomeStr(Lower(SplitSecond(e)))
        ELSE NoneStr

(***************************************************************************)
(* extract_domain_from_email, the same text in both files.                 *)
(***************************************************************************)
extract_domain_from_email(email) ==
    LET e == Strip(email)
    IN  IF \E i \in 1..Len(e) : e[i] = "@"
        THEN SomeStr(Lower(SplitLast(e)))
        ELSE NoneStr

(***************************************************************************)
(* check_hubspot.  The transport is the input: outcomes[i] is what the GET *)
(* of the i-th URL variant does.                                           *)
(*   kind "response"         a response, with status, body and final URL   *)
(*   kind "SSLError", "ConnectionError", "Timeout", "RequestException"     *)
(*                           the exception class the GET raises, with msg  *)
(***************************************************************************)
\* urls_to_try with plain HTTP tried first
urls_to_try_http_first(domain) ==
    << <<"h","t","t","p",":","/","/">> \o domain,
       <<"h","t","t","p",":","/","/","w","w","w",".">> \o domain,
       <<"h","t","t","p","s",":","/","/">> \o domain,
       <<"h","t","t","p","s",":","/","/","w","w","w",".">> \o domain >>

urls_to_try(domain) ==
    << <<"h","t","t","p","s",":","/","/">> \o domain,
       <<"h","t","t","p","s",":","/","/","w","w","w",".">> \o domain,
       <<"h","t","t","p",":","/","/">> \o domain,
       <<"h","t","t","p",":","/","/","w","w","w",".">> \o domain >>

hubspot_patterns ==
    << <<"h","u","b","s","p","o","t">>,
       <<"h","s","-","s","c","r","i","p","t","s",".","c","o","m">>,
       <<"j","s",".","h","s","-","s","c","r","i","p","t","s",".","c","o","m">>,
       <<"j","s",".","h","s","f","o","r","m","s",".","n","e","t">>,
       <<"h","b","s","p","t",".","f","o","r","m","s">>,
       <<"h","b","s","p","t",".","c","t","a">> >>

\* for pattern in hubspot_patterns: if pattern in html: ... (first match ends the loop)
RECURSIVE MatchFrom(_, _, _)
MatchFrom(patterns, html, j) ==
    IF j > Len(patterns) THEN FALSE
    ELSE IF Contains(html, patterns[j]) THEN TRUE
    ELSE MatchFrom(patterns, html, j + 1)

\* HasHubspot without the lower()
HasHubspotCaseSensitive(text) == MatchFrom(hubspot_patterns, text, 1)

\* html = response.text.lower(), then the pattern loop
HasHubspot(text) == MatchFrom(hubspot_patterns, Lower(text), 1)

\* response.url: the URL requested, or where the redirects ended
ResponseUrl(o, url) == IF o.redirected THEN o.final ELSE url

\* response.raise_for_status() raises HTTPError for a 4xx or 5xx status
RaisesForStatus(o) == o.status >= 400 /\ o.status < 600

\* ErrorOf with ConnectionError caught before its subclass SSLError
ErrorOfSslAsConnection(o) ==
    CASE o.kind = "response" /\ o.status = 403 ->
            SomeStr(<<"4","0","3"," ","F","o","r","b","i","d","d","e","n">>)
      [] o.kind = "response" /\ o.status /= 403 -> SomeStr(Prefix(o.msg, 50))
      [] o.kind \in {"SSLError", "ConnectionError"} ->
            SomeStr(<<"C","o","n","n","e","c","t","i","o","n"," ","E","r","r","o","r">>)
      [] o.kind = "Timeout" -> SomeStr(<<"T","i","m","e","o","u","t">>)
      [] o.kind = "RequestException" -> SomeStr(Prefix(o.msg, 50))

\* what last_error becomes when the GET of a variant fails
ErrorOf(o) ==
    CASE o.kind = "response" /\ o.status = 403 ->
            SomeStr(<<"4","0","3"," ","F","o","r","b","i","d","d","e","n">>)
      [] o.kind = "response" /\ o.status /= 403 -> SomeStr(Prefix(o.msg, 50))
      [] o.kind = "SSLError" -> SomeStr(<<"S","S","L"," ","E","r","r","o","r">>)
      [] o.kind = "ConnectionError" ->
            SomeStr(<<"C","o","n","n","e","c","t","i","o","n"," ","E","r","r","o","r">>)
      [] o.kind = "Timeout" -> SomeStr(<<"T","i","m","e","o","u","t">>)
      [] o.kind = "RequestException" -> SomeStr(Prefix(o.msg, 50))

\* the variant answered and raise_for_status() let it through
Succeeds(o) == o.kind = "response" /\ o.status /= 403 /\ ~RaisesForStatus(o)

StatusYes == <<"Y","e","s">>

StatusNo == <<"N","o">>

\* app.py: return '', f'Error: {last_error or "Unknown"}'
WebFailure(last_error) ==
    <<"E","r","r","o","r",":"," ">> \o
        (IF Truthy(last_error) THEN last_error.val
         ELSE <<"U","n","k","n","o","w","n">>)

\* main.py: result['error'] = last_error or 'Unknown Error'
CliFailure(last_error) ==
    IF Truthy(last_error) THEN last_error.val
    ELSE <<"U","n","k","n","o","w","n"," ","E","r","r","o","r">>

\* app.py: except Timeout: ... break
WebAfterTimeout(i, n) == n + 1

\* main.py: except Timeout: ... continue
CliAfterTimeout(i, n) == i + 1

\* app.py check_hubspot: the loop from variant i on; gets is the log of GETs issued
RECURSIVE WebLoop(_, _, _, _, _)
WebLoop(urls, outcomes, i, last_error, gets) ==
    IF i > Len(urls)
    THEN [url |-> <<>>, status |-> WebFailure(last_error), gets |-> gets]
    ELSE LET o == outcomes[i]
             g == Append(gets, urls[i])
         IN  IF Succeeds(o)
             THEN [url |-> ResponseUrl(o, urls[i]),
                   status |-> IF HasHubspot(o.body) THEN StatusYes ELSE StatusNo,
                   gets |-> g]
             ELSE IF o.kind = "Timeout"
             THEN WebLoop(urls, outcomes, WebAfterTimeout(i, Len(urls)), ErrorOf(o), g)
             ELSE WebLoop(urls, outcomes, i + 1, ErrorOf(o), g)

WebCheckHubspot(domain, outcomes) ==
    WebLoop(urls_to_try(domain), outcomes, 1, NoneStr, <<>>)

\* main.py check_hubspot
RECURSIVE CliLoop(_, _, _, _, _, _)
CliLoop(domain, urls, outcomes, i, last_error, gets) ==
    IF i > Len(urls)
    THEN [domain |-> domain, has_hubspot |-> FALSE, url |-> <<>>,
          error |-> CliFailure(last_error), gets |-> gets]
    ELSE LET o == outcomes[i]
             g == Append(gets, urls[i])
         IN  IF Succeeds(o)
             THEN [domain |-> domain, has_hubspot |-> HasHubspot(o.body),
                   url |-> ResponseUrl(o, urls[i]), error |-> <<>>, gets |-> g]
             ELSE IF o.kind = "Timeout"
             THEN CliLoop(domain, urls, outcomes, CliAfterTimeout(i, Len(urls)), ErrorOf(o), g)
             ELSE CliLoop(domain, urls, outcomes, i + 1, ErrorOf(o), g)

CliCheckHubspot(domain, outcomes) ==
    CliLoop(domain, urls_to_try(domain), outcomes, 1, NoneStr, <<>>)

(***************************************************************************)
(* Reading the CSV.  A parsed file is the sequence of its rows, the header *)
(* first; a blank line is the empty row, as csv.reader yields it.          *)
(***************************************************************************)
\* list.index(x), 0-based
IndexOf(seq, x) == (CHOOSE k \in 1..Len(seq) : seq[k] = x /\ \A j \in 1..(k - 1) : seq[j] /= x) - 1

InList(seq, x) == \E k \in 1..Len(seq) : seq[k] = x

\* header_lower = [h.lower().strip() for h in header]
header_lower(hdr) == [k \in 1..Len(hdr) |-> Strip(Lower(hdr[k]))]

\* the email column: 'email', else 'e-mail', else 'mail', else column 0
find_email_col(hdr) ==
    LET hl == header_lower(hdr)
    IN  IF InList(hl, <<"e","m","a","i","l">>) THEN IndexOf(hl, <<"e","m","a","i","l">>)
        ELSE IF InList(hl, <<"e","-","m","a","i","l">>)
        THEN IndexOf(hl, <<"e","-","m","a","i","l">>)
        ELSE IF InList(hl, <<"m","a","i","l">>) THEN IndexOf(hl, <<"m","a","i","l">>)
        ELSE 0

HeaderNamesEmail(hdr) ==
    LET hl == header_lower(hdr)
    IN  \/ InList(hl, <<"e","m","a","i","l">>)
        \/ InList(hl, <<"e","-","m","a","i","l">>)
        \/ InList(hl, <<"m","a","i","l">>)

\* for row in reader: if row and len(row) > email_col: emails.append(row[email_col])
RECURSIVE EmailsOfRows(_, _, _)
EmailsOfRows(rs, col, k) ==
    IF k > Len(rs) THEN <<>>
    ELSE (IF rs[k] /= <<>> /\ Len(rs[k]) > col THEN <<rs[k][col + 1]>> ELSE <<>>)
         \o EmailsOfRows(rs, col, k + 1)

\* main.py read_emails_from_csv
read_emails_from_csv(f) ==
    IF f = <<>> THEN <<>>
    ELSE LET hdr == f[1]
             col == IF hdr /= <<>> THEN find_email_col(hdr) ELSE 0
             first == IF hdr /= <<>> /\ ~HeaderNamesEmail(hdr)
                         /\ \E k \in 1..Len(hdr[1]) : hdr[1][k] = "@"
                      THEN <<hdr[1]>> ELSE <<>>
         IN  first \o EmailsOfRows(Tail(f), col, 1)

\* the domains of the emails that have one: if domain: domains.add(domain)
DomainsOf(es) ==
    {extract_domain_from_email(es[k]).val :
        k \in {j \in 1..Len(es) : Truthy(extract_domain_from_email(es[j]))}}

\* get_unique_domains collecting into a list: no set, no sorted()
RECURSIVE DomainListOf(_, _)
DomainListOf(es, k) ==
    IF k > Len(es) THEN <<>>
    ELSE (IF Truthy(extract_domain_from_email(es[k]))
          THEN <<extract_domain_from_email(es[k]).val>> ELSE <<>>)
         \o DomainListOf(es, k + 1)

get_unique_domains_as_list(es) == DomainListOf(es, 1)

\* main.py get_unique_domains
get_unique_domains(es) == Sorted(DomainsOf(es))

\* app.py process_csv: domains_to_scan, from the rows that reach the email column
domains_to_scan(rs, col) ==
    LET fields == {rs[k][col + 1] : k \in {j \in 1..Len(rs) : Len(rs[j]) > col}}
    IN  Sorted({extract_domain_from_email(e).val :
                   e \in {x \in fields : Truthy(extract_domain_from_email(x))}})

(***************************************************************************)
(* Writing the output.                                                     *)
(***************************************************************************)
EmptyField == <<>>

\* WebKeeps dropping only the rows classified No
WebKeepsAllButNo(all, status) == ~(~all /\ status = StatusNo)

\* app.py: if not include_all and hubspot_status != 'Yes': continue
WebKeeps(all, status) == ~(~all /\ status /= StatusYes)

\* app.py process_csv: output_rows, row by row
RECURSIVE output_rows(_, _, _, _, _)
output_rows(rs, col, dr, all, k) ==
    IF k > Len(rs) THEN <<>>
    ELSE LET row == rs[k]
             rest == output_rows(rs, col, dr, all, k + 1)
         IN  IF Len(row) > col
             THEN LET d == extract_domain_from_email(row[col + 1])
                  IN  IF Truthy(d) /\ d.val \in DOMAIN dr
                      THEN IF WebKeeps(all, dr[d.val][2])
                           THEN <<row \o dr[d.val]>> \o rest
                           ELSE rest
                      ELSE IF all THEN <<row \o <<EmptyField, EmptyField>>>> \o rest
                      ELSE rest
             ELSE rest

\* main.py write_results_csv: if hubspot_only: results = [r for r in results if r['has_hubspot']]
RECURSIVE HubspotOnly(_, _)
HubspotOnly(rs, k) ==
    IF k > Len(rs) THEN <<>>
    ELSE (IF rs[k].has_hubspot THEN <<rs[k]>> ELSE <<>>) \o HubspotOnly(rs, k + 1)

write_results_csv(rs, hubspot_only) ==
    [written |-> TRUE,
     header |-> << <<"d","o","m","a","i","n">>,
                   <<"h","a","s","_","h","u","b","s","p","o","t">>,
                   <<"u","r","l">>, <<"e","r","r","o","r">> >>,
     rows |-> IF hubspot_only THEN HubspotOnly(rs, 1) ELSE rs]

(***************************************************************************)
(* State.  One probe of one domain by both programs (domain .. web_ret),   *)
(* and one scan run of one program over one input file (prog .. calls).    *)
(***************************************************************************)
VARIABLES
    domain,         \* the domain handed to check_hubspot
    outcomes,       \* what the transport does for each of the four variants
    cli_ret,        \* main.py check_hubspot's return value, [called |-> FALSE] before
    web_ret,        \* app.py check_hubspot's return value, [called |-> FALSE] before
    prog,           \* "cli" (main.py main) or "web" (app.py process_csv)
    file,           \* the input CSV as parsed rows, the header row first
    include_all,    \* --all / the "Include all rows in output" checkbox
    pc,             \* where the run is: start, scan, build, done, interrupted, idle
    header,         \* app.py: the header row
    rows,           \* app.py: the data rows
    email_col,      \* index of the email column (0-based, as in the code)
    emails,         \* main.py: read_emails_from_csv's return value
    domains,        \* the sorted domains to scan
    scanned,        \* i of the scan loop: how many domains it has finished
    results,        \* main.py: the list of result dicts
    domain_results, \* app.py: the dict domain -> (scanned_url, hubspot_status)
    output,         \* the output sink: [written |-> FALSE] until the CSV is produced
    reported,       \* whether an error was shown to the user
    exit_status,    \* "running", "ok" (return / exit 0) or "error" (uncaught exception)
    calls           \* the log of check_hubspot calls of the run, [domain, ret]

probeVars == <<domain, outcomes, cli_ret, web_ret>>

scanVars == <<prog, file, include_all, pc, header, rows, email_col, emails, domains,
              scanned, results, domain_results, output, reported, exit_status, calls>>

vars == <<domain, outcomes, cli_ret, web_ret, prog, file, include_all, pc, header,
          rows, email_col, emails, domains, scanned, results,
          domain_results, output,
          reported, exit_status, calls>>

(***************************************************************************)
(* The transport's outcomes the model draws from.                          *)
(***************************************************************************)
NoStr == <<>>

BodyHubspot == <<"<","H","u","b","S","p","o","t",">">>

BodyPlain == <<"<","h","e","l","l","o",">">>

RedirectTarget == <<"h","t","t","p","s",":","/","/","x",".","c","o","m","/","e","n">>

\* "404 Client Error: Not Found for url: ...", longer than the 50 characters kept
LongMessage == <<"4","0","4"," ">> \o [i \in 1..56 |-> "x"]

Response(status, body, redirected, msg) ==
    [kind |-> "response", status |-> status, body |-> body,
     redirected |-> redirected, final |-> RedirectTarget, msg |-> msg]

Raises(kind, msg) ==
    [kind |-> kind, status |-> 0, body |-> NoStr,
     redirected |-> FALSE, final |-> NoStr, msg |-> msg]

OkHubspot == Response(200, BodyHubspot, FALSE, NoStr)

OkPlain == Response(200, BodyPlain, FALSE, NoStr)

OkRedirected == Response(200, BodyHubspot, TRUE, NoStr)

Forbidden == Response(403, NoStr, FALSE, NoStr)

NotFound == Response(404, NoStr, FALSE, LongMessage)

SslFails == Raises("SSLError", NoStr)

ConnFails == Raises("ConnectionError", NoStr)

TimesOut == Raises("Timeout", NoStr)

\* a RequestException whose str() is empty
OtherFails == Raises("RequestException", NoStr)

Outcomes == {OkHubspot, OkPlain, OkRedirected, Forbidden, NotFound,
             SslFails, ConnFails, TimesOut, OtherFails}

ProbeDomain == <<"x",".","c","o","m">>

NotCalled == [called |-> FALSE]

Returned(r) == [called |-> TRUE, ret |-> r]

(***************************************************************************)
(* One probe by each program.                                              *)
(***************************************************************************)
ScanIdle ==
    /\ prog = "none" /\ file = <<>> /\ include_all = FALSE /\ pc = "idle"
    /\ header = <<>> /\ rows = <<>> /\ email_col = 0 /\ emails = <<>>
    /\ domains = <<>> /\ scanned = 0 /\ results = <<>> /\ domain_results = <<>>
    /\ output = [written |-> FALSE] /\ reported = FALSE
    /\ exit_status = "running" /\ calls = <<>>

InitProbe ==
    /\ domain = ProbeDomain
    /\ outcomes \in [1..4 -> Outcomes]
    /\ cli_ret = NotCalled
    /\ web_ret = NotCalled
    /\ ScanIdle

\* main.py: result = check_hubspot(domain, ...)
CliProbe ==
    /\ pc = "idle"
    /\ ~cli_ret.called
    /\ cli_ret' = Returned(CliCheckHubspot(domain, outcomes))
    /\ UNCHANGED <<domain, outcomes, web_ret>>
    /\ UNCHANGED scanVars

\* app.py: scanned_url, hubspot_status = check_hubspot(domain, ...)
WebProbe ==
    /\ pc = "idle"
    /\ ~web_ret.called
    /\ web_ret' = Returned(WebCheckHubspot(domain, outcomes))
    /\ UNCHANGED <<domain, outcomes, cli_ret>>
    /\ UNCHANGED scanVars

NextProbe == CliProbe \/ WebProbe

SpecProbe == InitProbe /\ [][NextProbe]_vars

(***************************************************************************)
(* One probe of a page whose body is put together from fragments.          *)
(***************************************************************************)
Fragments ==
    { <<"H","u","b">>, <<"s","p","o","t">>,
      <<"h","s","-","s","c","r","i","p","t","s",".","c","o","m">>,
      <<"h","s","-","s","c","r","i","p","t","s",".","c","o">>,
      <<"J","S",".">>, <<"h","s","f","o","r","m","s",".","n","e","t">>,
      <<"h","b","s","p","t",".">>, <<"h","b","s","p","t">>,
      <<"F","o","r","m","s">>, <<"C","T","A">>, <<"<","p",">">> }

RECURSIVE BodiesOf(_)
BodiesOf(n) ==
    IF n = 0 THEN {<<>>}
    ELSE BodiesOf(n - 1) \cup {f \o b : f \in Fragments, b \in BodiesOf(n - 1)}

InitClassify ==
    /\ domain = ProbeDomain
    /\ \E b \in BodiesOf(MaxFragments) :
          outcomes \in { <<Response(200, b, FALSE, NoStr), ConnFails, ConnFails, ConnFails>>,
                         <<Forbidden, Response(200, b, FALSE, NoStr), ConnFails, ConnFails>> }
    /\ cli_ret = NotCalled
    /\ web_ret = NotCalled
    /\ ScanIdle

SpecClassify == InitClassify /\ [][NextProbe]_vars

(***************************************************************************)
(* What the claims about check_hubspot speak of.                           *)
(***************************************************************************)
BothReturned == cli_ret.called /\ web_ret.called

\* a usable 2xx/3xx answer
Usable(o) == o.kind = "response" /\ o.status \in 200..399

FirstUsable == CHOOSE i \in 1..4 : Usable(outcomes[i]) /\ \A j \in 1..(i - 1) : ~Usable(outcomes[j])

NoTimeout == \A i \in 1..4 : outcomes[i].kind /= "Timeout"

VariantUrl(scheme, www, d) ==
    scheme \o <<":","/","/">> \o (IF www THEN <<"w","w","w",".">> ELSE <<>>) \o d

FixedOrder(d) ==
    << VariantUrl(<<"h","t","t","p","s">>, FALSE, d), VariantUrl(<<"h","t","t","p","s">>, TRUE, d),
       VariantUrl(<<"h","t","t","p">>, FALSE, d), VariantUrl(<<"h","t","t","p">>, TRUE, d) >>

SixPatterns ==
    { <<"h","u","b","s","p","o","t">>,
      <<"h","s","-","s","c","r","i","p","t","s",".","c","o","m">>,
      <<"j","s",".","h","s","-","s","c","r","i","p","t","s",".","c","o","m">>,
      <<"j","s",".","h","s","f","o","r","m","s",".","n","e","t">>,
      <<"h","b","s","p","t",".","f","o","r","m","s">>,
      <<"h","b","s","p","t",".","c","t","a">> }

AnyOf(patterns, body) == \E p \in patterns : Contains(Lower(body), p)

\* the classification of a returned probe: "Yes", "No" or "Error"
CliClass(r) == IF r.has_hubspot THEN "Yes" ELSE IF r.error /= <<>> THEN "Error" ELSE "No"

WebClass(r) ==
    IF r.status = <<"Y","e","s">> THEN "Yes" ELSE IF r.status = <<"N","o">> THEN "No" ELSE "Error"

\* the GETs a probe must have issued when no variant times out
ExpectedGets ==
    IF \E i \in 1..4 : Usable(outcomes[i])
    THEN SubSeq(FixedOrder(domain), 1, FirstUsable)
    ELSE FixedOrder(domain)

ExpectedClass ==
    IF \E i \in 1..4 : Usable(outcomes[i])
    THEN IF AnyOf(SixPatterns, outcomes[FirstUsable].body) THEN "Yes" ELSE "No"
    ELSE "Error"

ExpectedUrl ==
    IF \E i \in 1..4 : Usable(outcomes[i])
    THEN IF outcomes[FirstUsable].redirected THEN outcomes[FirstUsable].final
         ELSE FixedOrder(domain)[FirstUsable]
    ELSE <<>>

\* C1: when no variant times out, both probers request the variants in the fixed
\* order https://D, https://www.D, http://D, http://www.D, each at most once, pass
\* over every failing variant and return the URL and the classification of the
\* first variant that succeeds, requesting nothing after it; 403 on https://D and
\* then a 200 body with 'hubspot' on https://www.D gives Yes with the www URL.
C1_FirstSuccessWins ==
    NoTimeout =>
        /\ cli_ret.called =>
              /\ cli_ret.ret.gets = ExpectedGets
              /\ cli_ret.ret.url = ExpectedUrl
              /\ CliClass(cli_ret.ret) = ExpectedClass
        /\ web_ret.called =>
              /\ web_ret.ret.gets = ExpectedGets
              /\ web_ret.ret.url = ExpectedUrl
              /\ WebClass(web_ret.ret) = ExpectedClass
        /\ (BothReturned /\ outcomes[1] = Forbidden /\ outcomes[2] = OkHubspot) =>
              /\ web_ret.ret.url = <<"h","t","t","p","s",":","/","/","w","w","w",".">> \o domain
              /\ web_ret.ret.status = <<"Y","e","s">>
              /\ cli_ret.ret.url = web_ret.ret.url
              /\ cli_ret.ret.has_hubspot

C1_Witness ==
    /\ BothReturned
    /\ outcomes[1] = Forbidden /\ outcomes[2] = OkHubspot /\ outcomes[3] = OkPlain
    /\ Len(web_ret.ret.gets) = 2 /\ Len(cli_ret.ret.gets) = 2

\* the error the spec has the prober record for a failed variant
RecordedError(o) ==
    CASE o.kind = "response" /\ o.status = 403 ->
            <<"4","0","3"," ","F","o","r","b","i","d","d","e","n">>
      [] o.kind = "SSLError" -> <<"S","S","L"," ","E","r","r","o","r">>
      [] o.kind = "ConnectionError" ->
            <<"C","o","n","n","e","c","t","i","o","n"," ","E","r","r","o","r">>
      [] o.kind = "Timeout" -> <<"T","i","m","e","o","u","t">>
      [] OTHER -> SubSeq(o.msg, 1, IF Len(o.msg) > 50 THEN 50 ELSE Len(o.msg))

\* every variant a probe attempted failed
AllAttemptedFail(r) == \A i \in 1..Len(r.gets) : ~Usable(outcomes[i])

\* the reason of a total failure: the last attempted variant's error, or the default
Reason(r, default) ==
    LET e == RecordedError(outcomes[Len(r.gets)])
    IN  IF e = <<>> THEN default ELSE e

TotalFailure(cliDefault, webDefault) ==
    /\ (cli_ret.called /\ AllAttemptedFail(cli_ret.ret)) =>
          /\ cli_ret.ret.url = <<>>
          /\ ~cli_ret.ret.has_hubspot
          /\ cli_ret.ret.error = Reason(cli_ret.ret, cliDefault)
    /\ (web_ret.called /\ AllAttemptedFail(web_ret.ret)) =>
          /\ web_ret.ret.url = <<>>
          /\ web_ret.ret.status =
                <<"E","r","r","o","r",":"," ">> \o Reason(web_ret.ret, webDefault)

\* C2 as stated: when every attempted variant fails, the probe returns an empty
\* URL and Error(reason), the reason being the last attempted variant's recorded
\* error or "Unknown" when none was recorded.
C2_Original ==
    TotalFailure(<<"U","n","k","n","o","w","n">>, <<"U","n","k","n","o","w","n">>)

\* C2 amended: as stated, except that the default reason is "Unknown" in the web
\* prober and "Unknown Error" in the CLI prober; four connection errors give
\* url "" and "Connection Error" in both.
C2_TotalFailure ==
    /\ TotalFailure(<<"U","n","k","n","o","w","n"," ","E","r","r","o","r">>,
                    <<"U","n","k","n","o","w","n">>)
    /\ (BothReturned /\ \A i \in 1..4 : outcomes[i] = ConnFails) =>
          /\ web_ret.ret.url = <<>> /\ cli_ret.ret.url = <<>>
          /\ web_ret.ret.status = <<"E","r","r","o","r",":"," ","C","o","n","n","e","c","t",
                                    "i","o","n"," ","E","r","r","o","r">>
          /\ cli_ret.ret.error = <<"C","o","n","n","e","c","t","i","o","n"," ",
                                   "E","r","r","o","r">>

C2_Witness ==
    /\ BothReturned
    /\ \A i \in 1..4 : outcomes[i] = ConnFails
    /\ Len(web_ret.ret.gets) = 4 /\ Len(cli_ret.ret.gets) = 4

\* C3: on the same outcomes containing a timeout, the CLI prober and the web
\* prober apply the same policy: they issue the same requests and return the
\* same URL and the same classification.
C3_SameTimeoutPolicy ==
    (BothReturned /\ ~NoTimeout) =>
        /\ cli_ret.ret.gets = web_ret.ret.gets
        /\ cli_ret.ret.url = web_ret.ret.url
        /\ CliClass(cli_ret.ret) = WebClass(web_ret.ret)

UpperChar(c) ==
    IF \E i \in 1..Len(LowerChars) : LowerChars[i] = c
    THEN UpperChars[CHOOSE i \in 1..Len(LowerChars) : LowerChars[i] = c]
    ELSE c

WithBody(i, b) == [outcomes EXCEPT ![i].body = b]

\* C9: the probe of a successful variant is positive exactly when the lowercased
\* body holds one of the six substrings; the body in upper case or in lower case
\* classifies the same; and without js.hs-scripts.com in the list nothing changes.
C9_Classification ==
    (BothReturned /\ \E i \in 1..4 : Usable(outcomes[i])) =>
        LET k == FirstUsable
            b == outcomes[k].body
            up == [i \in 1..Len(b) |-> UpperChar(b[i])]
            lo == [i \in 1..Len(b) |-> LowerChar(b[i])]
            five == SixPatterns \ {<<"j","s",".","h","s","-","s","c","r","i","p","t","s",
                                    ".","c","o","m">>}
        IN  /\ (web_ret.ret.status = <<"Y","e","s">>) <=> AnyOf(SixPatterns, b)
            /\ (web_ret.ret.status = <<"N","o">>) <=> ~AnyOf(SixPatterns, b)
            /\ cli_ret.ret.has_hubspot <=> AnyOf(SixPatterns, b)
            /\ cli_ret.ret.has_hubspot <=> AnyOf(five, b)
            /\ WebCheckHubspot(domain, WithBody(k, up)).status = web_ret.ret.status
            /\ WebCheckHubspot(domain, WithBody(k, lo)).status = web_ret.ret.status
            /\ CliCheckHubspot(domain, WithBody(k, up)).has_hubspot = cli_ret.ret.has_hubspot
            /\ CliCheckHubspot(domain, WithBody(k, lo)).has_hubspot = cli_ret.ret.has_hubspot

C9_Witness ==
    /\ BothReturned
    /\ outcomes[1].body = <<"J","S",".","h","s","-","s","c","r","i","p","t","s",".","c","o","m">>
    /\ web_ret.ret.status = <<"Y","e","s">>
    /\ cli_ret.ret.has_hubspot

(***************************************************************************)
(* One scan run: main() of main.py or process_csv() of app.py.             *)
(***************************************************************************)
ProbeIdle ==
    /\ domain = <<>> /\ outcomes = <<>>
    /\ cli_ret = NotCalled /\ web_ret = NotCalled

HeaderNamed == << <<"n","a","m","e">>, <<" ","E","m","a","i","l">> >>

\* a file without a header line: its first row is data
HeaderData == << <<"z","@","x",".","c","o","m">> >>

BlankLine == <<>>

RowA == << <<"A">>, <<"a","@","x",".","c","o","m">> >>

RowB == << <<"B">>, <<"b","@","x",".","c","o","m">> >>

RowC == << <<"C">>, <<"c","@","y",".","c","o","m">> >>

RowNoAt == << <<"D">>, <<"n","o","b","o","d","y">> >>

RowOneField == << <<"c","@","y",".","c","o","m">> >>

RowUpper == << <<"E">>, <<" ","E","@","Y",".","C","o","m"," ">> >>

RowPool == {RowA, RowB, RowC, RowUpper, RowNoAt, RowOneField}

RECURSIVE SeqsUpTo(_, _)
SeqsUpTo(S, n) ==
    IF n = 0 THEN {<<>>}
    ELSE SeqsUpTo(S, n - 1) \cup
         {Append(q, x) : q \in {r \in SeqsUpTo(S, n - 1) : Len(r) = n - 1}, x \in S}

Files ==
    {<<>>} \cup {<<h>> \o rs : h \in {HeaderNamed, HeaderData, BlankLine},
                              rs \in SeqsUpTo(RowPool, MaxRows)}

\* what the sites of a scanned domain do
ScanOutcomes ==
    { <<Forbidden, OkHubspot, OkPlain, OkPlain>>,
      <<OkPlain, OkPlain, OkPlain, OkPlain>>,
      <<ConnFails, ConnFails, ConnFails, ConnFails>>,
      <<TimesOut, OkHubspot, OkPlain, OkPlain>> }

ScanStart ==
    /\ prog \in {"cli", "web"}
    /\ include_all \in BOOLEAN
    /\ pc = "start"
    /\ header = <<>> /\ rows = <<>> /\ email_col = 0 /\ emails = <<>>
    /\ domains = <<>> /\ scanned = 0 /\ results = <<>> /\ domain_results = <<>>
    /\ output = [written |-> FALSE] /\ reported = FALSE
    /\ exit_status = "running" /\ calls = <<>>

InitScan ==
    /\ ProbeIdle
    /\ file \in Files
    /\ ScanStart

EmailAlphabet == {" ", "@", "a", "B", "."}

InitExtract ==
    /\ ProbeIdle
    /\ \E e \in SeqsUpTo(EmailAlphabet, MaxEmailLen) : file = <<HeaderNamed, << <<"A">>, e >>, RowC>>
    /\ ScanStart

CliResult(r) ==
    [domain |-> r.domain, has_hubspot |-> r.has_hubspot, url |-> r.url, error |-> r.error]

WebResult(r) == <<r.url, r.status>>

\* dict[key] = value
DictSet(dr, key, value) ==
    [d \in (DOMAIN dr) \cup {key} |-> IF d = key THEN value ELSE dr[d]]

\* main.py main: read_emails_from_csv, get_unique_domains, results = []
CliRead ==
    /\ prog = "cli" /\ pc = "start"
    /\ emails' = read_emails_from_csv(file)
    /\ domains' = get_unique_domains(emails')
    /\ results' = <<>>
    /\ scanned' = 0
    /\ pc' = "scan"
    /\ UNCHANGED <<file, prog, include_all, header, rows, email_col, domain_results,
                   output, reported, exit_status, calls>>
    /\ UNCHANGED probeVars

\* main.py main: one turn of the loop over domains
CliScan ==
    /\ prog = "cli" /\ pc = "scan" /\ scanned < Len(domains)
    /\ \E o \in ScanOutcomes :
          LET d == domains[scanned + 1]
              r == CliResult(CliCheckHubspot(d, o))
          IN  /\ results' = Append(results, r)
              /\ calls' = Append(calls, [domain |-> d, ret |-> r])
    /\ scanned' = scanned + 1
    /\ UNCHANGED <<file, prog, include_all, pc, header, rows, email_col, emails, domains,
                   domain_results, output, reported, exit_status>>
    /\ UNCHANGED probeVars

\* main.py main: after the loop, write_results_csv(results, ..., hubspot_only=not args.all)
CliWrite ==
    /\ prog = "cli" /\ pc = "scan" /\ scanned = Len(domains)
    /\ output' = write_results_csv(results, ~include_all)
    /\ pc' = "done"
    /\ exit_status' = "ok"
    /\ UNCHANGED <<file, prog, include_all, header, rows, email_col, emails, domains,
                   scanned, results, domain_results, reported, calls>>
    /\ UNCHANGED probeVars

\* app.py process_csv: read the CSV, find the email column, collect the domains
WebRead ==
    /\ prog = "web" /\ pc = "start"
    /\ IF file = <<>> \/ file[1] = <<>>
       THEN /\ reported' = TRUE
            /\ pc' = "done"
            /\ exit_status' = "ok"
            /\ UNCHANGED <<header, rows, email_col, domains, scanned, domain_results>>
       ELSE /\ header' = file[1]
            /\ rows' = Tail(file)
            /\ email_col' = find_email_col(file[1])
            /\ domains' = domains_to_scan(rows', email_col')
            /\ domain_results' = <<>>
            /\ scanned' = 0
            /\ pc' = "scan"
            /\ UNCHANGED <<reported, exit_status>>
    /\ UNCHANGED <<file, prog, include_all, emails, results, output, calls>>
    /\ UNCHANGED probeVars

\* app.py process_csv: one turn of the loop over domains_to_scan
WebScan ==
    /\ prog = "web" /\ pc = "scan" /\ scanned < Len(domains)
    /\ \E o \in ScanOutcomes :
          LET d == domains[scanned + 1]
              r == WebResult(WebCheckHubspot(d, o))
          IN  /\ domain_results' = DictSet(domain_results, d, r)
              /\ calls' = Append(calls, [domain |-> d, ret |-> r])
    /\ scanned' = scanned + 1
    /\ UNCHANGED <<file, prog, include_all, pc, header, rows, email_col, emails, domains,
                   results, output, reported, exit_status>>
    /\ UNCHANGED probeVars

\* app.py process_csv: after the loop, build the output CSV and return it
WebBuild ==
    /\ prog = "web" /\ pc = "scan" /\ scanned = Len(domains)
    /\ output' = [written |-> TRUE,
                  header |-> header \o << <<"s","c","a","n","n","e","d","_","u","r","l">>,
                                         <<"h","u","b","s","p","o","t","_","s","t","a","t","u","s">> >>,
                  rows |-> output_rows(rows, email_col, domain_results, include_all, 1)]
    /\ pc' = "done"
    /\ exit_status' = "ok"
    /\ UNCHANGED <<file, prog, include_all, header, rows, email_col, emails, domains,
                   scanned, results, domain_results, reported, calls>>
    /\ UNCHANGED probeVars

\* The user interrupts the loop (Ctrl-C, or Stop in the browser).  Neither loop is
\* inside a try: the exception leaves main() / process_csv() at once.
Interrupt ==
    /\ pc = "scan" /\ scanned < Len(domains)
    /\ pc' = "interrupted"
    /\ exit_status' = IF prog = "cli" THEN "error" ELSE "stopped"
    /\ UNCHANGED <<file, prog, include_all, header, rows, email_col, emails, domains,
                   scanned, results, domain_results, output, reported, calls>>
    /\ UNCHANGED probeVars

NextScan == CliRead \/ CliScan \/ CliWrite \/ WebRead \/ WebScan \/ WebBuild \/ Interrupt

SpecScan == InitScan /\ [][NextScan]_vars

SpecExtract == InitExtract /\ [][NextScan]_vars

(***************************************************************************)
(* What the claims about a scan run speak of.                              *)
(***************************************************************************)
\* the email fields the run extracts domains from
EmailFields ==
    IF prog = "cli" THEN {emails[k] : k \in 1..Len(emails)}
    ELSE {rows[k][email_col + 1] : k \in {j \in 1..Len(rows) : Len(rows[j]) > email_col}}

\* the distinct non-empty domains of those fields
WantedDomains ==
    {extract_domain_from_email(e).val :
        e \in {x \in EmailFields : /\ ~extract_domain_from_email(x).none
                                   /\ extract_domain_from_email(x).val /= <<>>}}

CalledDomains == {calls[k].domain : k \in 1..Len(calls)}

Scenario == file = <<HeaderNamed, RowA, RowB, RowC>>

\* C4: the check_hubspot calls of a run are, in ascending order and each once,
\* the distinct non-empty domains of the email fields (all of them once the run
\* is done); every result is stored once, as the call returned it, and is never
\* overwritten; three rows over two domains give two probes.
C4_OneProbePerDomain ==
    (pc /= "start" /\ pc /= "idle") =>
        /\ \A j, k \in 1..Len(calls) : j < k => StrLess(calls[j].domain, calls[k].domain)
        /\ CalledDomains \subseteq WantedDomains
        /\ \A d \in WantedDomains \ CalledDomains :
              \A k \in 1..Len(calls) : StrLess(calls[k].domain, d)
        /\ (pc = "done" /\ ~reported) => CalledDomains = WantedDomains
        /\ prog = "web" =>
              /\ DOMAIN domain_results = CalledDomains
              /\ \A k \in 1..Len(calls) : domain_results[calls[k].domain] = calls[k].ret
        /\ prog = "cli" =>
              /\ Len(results) = Len(calls)
              /\ \A k \in 1..Len(calls) : results[k] = calls[k].ret
        /\ (Scenario /\ pc = "done") => Len(calls) = 2

C4_Witness ==
    /\ Scenario /\ pc = "done" /\ Len(calls) = 2
    /\ calls[1].domain = <<"x",".","c","o","m">>
    /\ calls[2].domain = <<"y",".","c","o","m">>

\* the domain of a row, when one can be extracted from it
RowHasDomain(row) ==
    /\ Len(row) > email_col
    /\ ~extract_domain_from_email(row[email_col + 1]).none
    /\ extract_domain_from_email(row[email_col + 1]).val /= <<>>

RowDomain(row) == extract_domain_from_email(row[email_col + 1]).val

\* C5: with include-all set, process_csv emits one output row per input row, in
\* input order: the row with (resolved_url, classification) when its domain is in
\* the mapping, the row with two empty fields otherwise; no row is dropped.
C5_IncludeAllKeepsEveryRow ==
    (prog = "web" /\ pc = "done" /\ output.written /\ include_all) =>
        /\ Len(output.rows) = Len(rows)
        /\ \A k \in 1..Len(rows) :
              k <= Len(output.rows) =>
                  output.rows[k] =
                      rows[k] \o (IF RowHasDomain(rows[k]) /\ RowDomain(rows[k]) \in DOMAIN domain_results
                                  THEN domain_results[RowDomain(rows[k])]
                                  ELSE << <<>>, <<>> >>)

\* C6: without include-all the output holds exactly the input rows (CLI: the
\* domains) classified as a positive match, in order, and nothing classified No
\* or Error or without a domain; rows A, B at x.com (Yes) and C at y.com (No)
\* give the two rows A and B with hubspot_status Yes.
C6_OnlyPositiveRows ==
    (pc = "done" /\ output.written /\ ~include_all) =>
        /\ prog = "web" =>
              LET Positive(row) ==
                      /\ RowHasDomain(row)
                      /\ \E k \in 1..Len(calls) :
                            calls[k].domain = RowDomain(row) /\ calls[k].ret[2] = <<"Y","e","s">>
                  UrlOf(row) ==
                      (CHOOSE c \in {calls[k] : k \in 1..Len(calls)} :
                            c.domain = RowDomain(row)).ret[1]
                  kept == SelectSeq(rows, Positive)
              IN  /\ Len(output.rows) = Len(kept)
                  /\ \A k \in 1..Len(kept) :
                        output.rows[k] = kept[k] \o <<UrlOf(kept[k]), <<"Y","e","s">>>>
        /\ prog = "cli" =>
              LET Positive(c) == c.ret.has_hubspot
                  kept == SelectSeq(calls, Positive)
              IN  /\ Len(output.rows) = Len(kept)
                  /\ \A k \in 1..Len(kept) :
                        /\ output.rows[k] = kept[k].ret
                        /\ output.rows[k].domain = kept[k].domain
        /\ (prog = "web" /\ Scenario /\ Len(calls) = 2
                /\ calls[1].ret[2] = <<"Y","e","s">> /\ calls[2].ret[2] = <<"N","o">>) =>
              output.rows = << RowA \o calls[1].ret, RowB \o calls[1].ret >>

C6_Witness ==
    /\ prog = "web" /\ pc = "done" /\ output.written /\ ~include_all
    /\ Scenario /\ Len(calls) = 2
    /\ calls[1].ret[2] = <<"Y","e","s">> /\ calls[2].ret[2] = <<"N","o">>
    /\ Len(output.rows) = 2

\* C7: when the user interrupts a run after k of n domains, the k results are
\* still written to the output sink and the run ends without an error exit.
C7_InterruptFlushes ==
    (pc = "interrupted" /\ Len(calls) > 0) =>
        /\ output.written
        /\ exit_status /= "error"

\* C8: an empty input file aborts the run in both entry points: the condition is
\* reported, no domain is probed and no output is produced.
C8_EmptyInputAborts ==
    (file = <<>> /\ pc = "done") =>
        /\ reported
        /\ calls = <<>>
        /\ ~output.written

\* the email of the row the extraction runs draw
DrawnEmail == file[2][2]

\* the string without its surrounding whitespace, found by search
Trimmed(e) ==
    CHOOSE t \in {SubSeq(e, a + 1, Len(e) - b) : a, b \in 0..Len(e)} :
        \E a, b \in 0..Len(e) :
            /\ a + b <= Len(e)
            /\ t = SubSeq(e, a + 1, Len(e) - b)
            /\ \A k \in 1..a : e[k] \in {" ", "\t", "\n"}
            /\ \A k \in (Len(e) - b + 1)..Len(e) : e[k] \in {" ", "\t", "\n"}
            /\ t /= <<>> => (t[1] \notin {" ", "\t", "\n"} /\ t[Len(t)] \notin {" ", "\t", "\n"})

\* C10: extract_domain_from_email trims the string and returns the lowercased
\* text after the last '@', or None when there is no '@'; and every domain that
\* enters the scan set is non-empty (an address ending in '@' adds no target).
C10_ExtractDomain ==
    LET e == DrawnEmail
        t == Trimmed(e)
        r == extract_domain_from_email(e)
        ats == {k \in 1..Len(t) : t[k] = "@"}
    IN  /\ ats = {} => r.none
        /\ ats /= {} =>
              LET last == CHOOSE k \in ats : \A j \in ats : j <= k
              IN  /\ ~r.none
                  /\ Len(r.val) = Len(t) - last
                  /\ \A j \in 1..Len(r.val) : r.val[j] = LowerChar(t[last + j])
                  /\ (pc /= "start" /\ Len(t) > last) =>
                        \E k \in 1..Len(domains) : domains[k] = r.val
        /\ pc /= "start" =>
              /\ \A k \in 1..Len(domains) : domains[k] /= <<>>
              /\ \A k \in 1..Len(calls) : calls[k].domain /= <<>>
              /\ (ats = {} \/ t[Len(t)] = "@") => domains = << <<"y",".","c","o","m">> >>

C10_Witness ==
    /\ pc = "done"
    /\ DrawnEmail = <<"B","@"," ">>
    /\ Len(calls) = 1

====
